---- MODULE Spec2Model ----
(***************************************************************************)
(* birthday_match.py: one run of the script, from the roster fetch to the  *)
(* write of index.html.  Each action is one statement group of the script; *)
(* the locals of a function are dropped when the function returns.         *)
(***************************************************************************)
EXTENDS Integers, Sequences, FiniteSets, TLC

\* ---------------------------------------------------------------- bounds
MaxPlayers == 2
MaxFixtures == 2
MaxRows == 3

\* ----------------------------------------------------------------- dates
Date(y, m, d) == [year |-> y, month |-> m, day |-> d]

\* pandas NaT (a null kickoff_time) and Python None (dict.get miss)
NaT == [year |-> 0, month |-> 0, day |-> 0]
None == [year |-> 0, month |-> 0, day |-> 1]

\* datetime.date.__lt__: lexicographic on (year, month, day)
DateLT(a, b) ==
  \/ a.year < b.year
  \/ a.year = b.year /\ a.month < b.month
  \/ a.year = b.year /\ a.month = b.month /\ a.day < b.day

\* pd.to_datetime(x).date() of the ISO components <<y, m, d>>; raises on
\* anything that is not a calendar date
CanParse(s) == Len(s) = 3 /\ s[2] \in 1..12 /\ s[3] \in 1..31
ToDate(s) == Date(s[1], s[2], s[3])

\* ---------------------------------------------------------------- strings
\* a string is a sequence of one-character strings
LowerChar(c) ==
  CASE c = "J" -> "j" [] c = "S" -> "s" [] c = "A" -> "a"
    [] c = "B" -> "b" [] c = "K" -> "k" [] c = "T" -> "t"
    [] OTHER -> c
Lower(s) == [i \in 1..Len(s) |-> LowerChar(s[i])]

RECURSIVE LStrip(_)
LStrip(s) == IF s # <<>> /\ Head(s) = " " THEN LStrip(Tail(s)) ELSE s
RECURSIVE RStrip(_)
RStrip(s) ==
  IF s # <<>> /\ s[Len(s)] = " " THEN RStrip(SubSeq(s, 1, Len(s) - 1)) ELSE s
Strip(s) == RStrip(LStrip(s))

\* name.lower().strip()
MatchKey(name) == Strip(Lower(name))

\* ------------------------------------------------------- external inputs
\* sequences of at most n distinct elements of S
InjSeqs(S, n) ==
  UNION {{s \in [1..k -> S] : \A i, j \in 1..k : i # j => s[i] # s[j]} :
         k \in 0..n}

\* data['teams'] of the bootstrap response, as the dict built on line 58
TeamsResponse == [id \in 1..3 |->
  CASE id = 1 -> "Alpha FC" [] id = 2 -> "Beta FC" [] OTHER -> "Gamma FC"]

\* data['elements'] rows
Elements ==
  { [first_name |-> <<"J">>, second_name |-> <<"S">>,
     web_name |-> <<"S">>, team |-> 1],
    [first_name |-> <<"A">>, second_name |-> <<"B", " ">>,
     web_name |-> <<" ", "B">>, team |-> 2],
    [first_name |-> <<"K">>, second_name |-> <<"T">>,
     web_name |-> <<"T">>, team |-> 1] }

\* results.bindings rows: a label and a dob string (<<>>: the field is
\* missing, month 13: the string does not parse)
Bindings ==
  { [playerLabel |-> <<"J", " ", "S">>, dob |-> <<1998, 5, 10>>],
    [playerLabel |-> <<"S", " ">>, dob |-> <<2000, 5, 11>>],
    [playerLabel |-> <<" ", "j", " ", "s">>, dob |-> <<1999, 6, 10>>],
    [playerLabel |-> <<"B">>, dob |-> <<1998, 5, 10>>],
    [playerLabel |-> <<"J", " ", "S">>, dob |-> <<2001, 13, 1>>] }

\* fixtures rows; a fixture is between two different teams
FixtureRows ==
  { [team_h |-> 1, team_a |-> 2, kickoff_time |-> <<2025, 5, 10>>],
    [team_h |-> 2, team_a |-> 1, kickoff_time |-> <<2026, 5, 10>>],
    [team_h |-> 1, team_a |-> 3, kickoff_time |-> <<2025, 5, 11>>],
    [team_h |-> 3, team_a |-> 2, kickoff_time |-> <<2025, 6, 10>>],
    [team_h |-> 1, team_a |-> 2, kickoff_time |-> <<>>] }

\* datetime.now().date()
Todays == {Date(2025, 5, 10), Date(2025, 5, 11)}

\* ------------------------------------------------------------------ state
VARIABLES pc, steps, failed, teams, players, data, idx, dob_map, fixtures,
          today, p_idx, p_dob, matches_found, df, html_content, file

vars == <<pc, steps, failed, teams, players, data, idx, dob_map, fixtures,
          today, p_idx, p_dob, matches_found, df, html_content, file>>

EmptyMap == [k \in {} |-> NaT]
NoDoc == [count |-> -1, cards |-> <<>>, placeholder |-> FALSE]

Init ==
  /\ pc = "start"
  /\ steps = <<>>
  /\ failed = "none"
  /\ teams = EmptyMap
  /\ players = <<>>
  /\ data = <<>>
  /\ idx = 0
  /\ dob_map = EmptyMap
  /\ fixtures = <<>>
  /\ today = NaT
  /\ p_idx = 0
  /\ p_dob = None
  /\ matches_found = <<>>
  /\ df = <<>>
  /\ html_content = NoDoc
  /\ file = NoDoc

\* get_data returns v (or raises, to = "crashed"): its locals are dropped
Leave(to, v) ==
  /\ pc' = to
  /\ df' = v
  /\ teams' = EmptyMap
  /\ players' = <<>>
  /\ dob_map' = EmptyMap
  /\ fixtures' = <<>>
  /\ today' = NaT
  /\ p_idx' = 0
  /\ p_dob' = None
  /\ matches_found' = <<>>

\* control flow of get_data after each successful stage
AfterRosterSkipsBirthdays == "fixtures"
AfterRoster == "wikidata"
AfterBirthdays == "fixtures"
AfterFixtures == "loop"

\* ------------------------------------------------------------ 1. roster
FullName(e) == e.first_name \o <<" ">> \o e.second_name

PlayerRow(e, t) ==
  [full_name |-> FullName(e),
   match_key |-> MatchKey(FullName(e)),
   web_name |-> e.web_name,
   TeamName |-> t[e.team]]

FetchRosterOk ==
  /\ pc = "start"
  /\ \E els \in InjSeqs(Elements, MaxPlayers) :
       /\ els # <<>>
       /\ teams' = TeamsResponse
       /\ players' = [i \in 1..Len(els) |-> PlayerRow(els[i], TeamsResponse)]
  /\ steps' = Append(steps, "roster")
  /\ pc' = AfterRoster
  /\ UNCHANGED <<failed, data, idx, dob_map, fixtures, today, p_idx, p_dob,
                 matches_found, df, html_content, file>>

\* the request raises
FetchRosterFail ==
  /\ pc = "start"
  /\ steps' = Append(steps, "roster")
  /\ failed' = "roster"
  /\ Leave("render", <<>>)
  /\ UNCHANGED <<data, idx, html_content, file>>

\* an empty elements list: players['first_name'] raises KeyError, caught
FetchRosterEmpty ==
  /\ pc = "start"
  /\ steps' = Append(steps, "roster")
  /\ Leave("render", <<>>)
  /\ UNCHANGED <<failed, data, idx, html_content, file>>

\* --------------------------------------------------------- 2. birthdays
WikidataRequestOk ==
  /\ pc = "wikidata"
  /\ data' \in InjSeqs(Bindings, MaxRows)
  /\ idx' = 0
  /\ dob_map' = EmptyMap
  /\ steps' = Append(steps, "birthdays")
  /\ pc' = "wikidata_loop"
  /\ UNCHANGED <<failed, teams, players, fixtures, today, p_idx, p_dob,
                 matches_found, df, html_content, file>>

\* the request raises: get_wikidata_birthdays returns {}
WikidataRequestFail ==
  /\ pc = "wikidata"
  /\ steps' = Append(steps, "birthdays")
  /\ failed' = "birthdays"
  /\ dob_map' = EmptyMap
  /\ pc' = "check_dob"
  /\ UNCHANGED <<teams, players, data, idx, fixtures, today, p_idx, p_dob,
                 matches_found, df, html_content, file>>

\* dob_map.setdefault(key, d): the first row of a key wins
PutDobKeepFirst(m, key, d) ==
  [k \in (DOMAIN m) \cup {key} |-> IF k \in DOMAIN m THEN m[k] ELSE d]
\* dob_map[key] = dob_date
PutDob(m, key, d) ==
  [k \in (DOMAIN m) \cup {key} |-> IF k = key THEN d ELSE m[k]]

\* one iteration of the loop over the bindings
WikidataRow ==
  /\ pc = "wikidata_loop"
  /\ idx < Len(data)
  /\ LET item == data[idx + 1] IN
       dob_map' = IF CanParse(item.dob)
                  THEN PutDob(dob_map, MatchKey(item.playerLabel),
                              ToDate(item.dob))
                  ELSE dob_map
  /\ idx' = idx + 1
  /\ UNCHANGED <<pc, steps, failed, teams, players, data, fixtures, today,
                 p_idx, p_dob, matches_found, df, html_content, file>>

WikidataReturn ==
  /\ pc = "wikidata_loop"
  /\ idx = Len(data)
  /\ data' = <<>>
  /\ idx' = 0
  /\ pc' = "check_dob"
  /\ UNCHANGED <<steps, failed, teams, players, dob_map, fixtures, today,
                 p_idx, p_dob, matches_found, df, html_content, file>>

\* not dob_map
IsEmptyMapNever(m) == FALSE
IsEmptyMap(m) == DOMAIN m = {}

ReturnNoBirthdays ==
  /\ pc = "check_dob"
  /\ IsEmptyMap(dob_map)
  /\ Leave("render", <<>>)
  /\ UNCHANGED <<steps, failed, data, idx, html_content, file>>

ProceedToFixtures ==
  /\ pc = "check_dob"
  /\ ~IsEmptyMap(dob_map)
  /\ pc' = AfterBirthdays
  /\ UNCHANGED <<steps, failed, teams, players, data, idx, dob_map, fixtures,
                 today, p_idx, p_dob, matches_found, df, html_content, file>>

\* ---------------------------------------------------------- 3. fixtures
KickoffDate(r) == IF CanParse(r.kickoff_time) THEN ToDate(r.kickoff_time) ELSE NaT

FixtureRow(r, t) ==
  [kickoff_time |-> KickoffDate(r), Home |-> t[r.team_h], Away |-> t[r.team_a]]

NotNull(r) == r.kickoff_time # NaT

\* to_datetime(...).dt.date, dropna, then the Home and Away columns
FixtureFrame(resp, t) ==
  SelectSeq([i \in 1..Len(resp) |-> FixtureRow(resp[i], t)], NotNull)

FetchFixturesOk ==
  /\ pc = "fixtures"
  /\ \E resp \in InjSeqs(FixtureRows, MaxFixtures) :
       /\ resp # <<>>
       /\ fixtures' = FixtureFrame(resp, teams)
  /\ today' \in Todays
  /\ matches_found' = <<>>
  /\ p_idx' = 0
  /\ steps' = Append(steps, "fixtures")
  /\ pc' = AfterFixtures
  /\ UNCHANGED <<failed, teams, players, data, idx, dob_map, p_dob, df,
                 html_content, file>>

FetchFixturesFail ==
  /\ pc = "fixtures"
  /\ steps' = Append(steps, "fixtures")
  /\ failed' = "fixtures"
  /\ Leave("render", <<>>)
  /\ UNCHANGED <<data, idx, html_content, file>>

\* an empty fixtures list: fixtures['kickoff_time'] raises KeyError, caught
FetchFixturesEmpty ==
  /\ pc = "fixtures"
  /\ steps' = Append(steps, "fixtures")
  /\ Leave("render", <<>>)
  /\ UNCHANGED <<failed, data, idx, html_content, file>>

\* ---------------------------------------------------------- 4. matcher
\* dob_map.get(p_key), then dob_map.get(web_key) when that is falsy
ResolveWebFirst(p, m) ==
  IF MatchKey(p.web_name) \in DOMAIN m THEN m[MatchKey(p.web_name)]
  ELSE IF p.match_key \in DOMAIN m THEN m[p.match_key]
  ELSE None
Resolve(p, m) ==
  IF p.match_key \in DOMAIN m THEN m[p.match_key]
  ELSE IF MatchKey(p.web_name) \in DOMAIN m THEN m[MatchKey(p.web_name)]
  ELSE None

\* fixtures[(Home == p_team) | (Away == p_team)]
TeamFixHomeOnly(fx, p_team) ==
  LET Mine(m) == m.Home = p_team IN SelectSeq(fx, Mine)
TeamFix(fx, p_team) ==
  LET Mine(m) == m.Home = p_team \/ m.Away = p_team IN SelectSeq(fx, Mine)

IsBirthdayMonthOnly(m_date, dob) == m_date.month = dob.month
IsBirthday(m_date, dob) == m_date.month = dob.month /\ m_date.day = dob.day

Venue(p_team, m) == IF p_team = m.Home THEN "vs" ELSE "@"

OpponentAlwaysAway(p_team, m) == m.Away
Opponent(p_team, m) == IF p_team = m.Home THEN m.Away ELSE m.Home

StatusNotAfter(m_date, now) ==
  IF DateLT(m_date, now) \/ m_date = now THEN "PLAYED" ELSE "UPCOMING"
Status(m_date, now) == IF DateLT(m_date, now) THEN "PLAYED" ELSE "UPCOMING"

CssClass(m_date, now) == IF DateLT(m_date, now) THEN "played" ELSE "upcoming"

MatchRecord(p, dob, m, now) ==
  [Date |-> m.kickoff_time,
   Status |-> Status(m.kickoff_time, now),
   CssClass |-> CssClass(m.kickoff_time, now),
   Player |-> p.full_name,
   Team |-> p.TeamName,
   TurningAge |-> m.kickoff_time.year - dob.year,
   Opponent |-> <<Venue(p.TeamName, m), Opponent(p.TeamName, m)>>]

\* the inner loop over team_fix
RECURSIVE PlayerMatches(_, _, _, _)
PlayerMatches(p, dob, team_fix, now) ==
  IF team_fix = <<>> THEN <<>>
  ELSE LET m == Head(team_fix)
           rest == PlayerMatches(p, dob, Tail(team_fix), now)
       IN IF IsBirthday(m.kickoff_time, dob)
          THEN <<MatchRecord(p, dob, m, now)>> \o rest
          ELSE rest

\* one iteration of the loop over the players
MatchPlayer ==
  /\ pc = "loop"
  /\ p_idx < Len(players)
  /\ LET p == players[p_idx + 1]
         dob == Resolve(p, dob_map)
     IN /\ p_dob' = dob
        /\ matches_found' =
             IF dob # None
             THEN matches_found \o
                  PlayerMatches(p, dob, TeamFix(fixtures, p.TeamName), today)
             ELSE matches_found
  /\ p_idx' = p_idx + 1
  /\ steps' = IF p_idx = 0 THEN Append(steps, "match") ELSE steps
  /\ UNCHANGED <<pc, failed, teams, players, data, idx, dob_map, fixtures,
                 today, df, html_content, file>>

\* ------------------------------------------------------------- 5. sort
Perms(n) == {p \in [1..n -> 1..n] : \A i, j \in 1..n : i # j => p[i] # p[j]}

IsSortedByDate(s) ==
  \A i \in 1..(Len(s) - 1) : ~DateLT(s[i + 1].Date, s[i].Date)

\* DataFrame.sort_values('Date') with the default kind='quicksort', which
\* pandas documents as not stable: any ordering that is sorted by Date
SortValuesUnsorted(s) == {s}
SortValues(s) ==
  {t \in {[i \in 1..Len(s) |-> s[p[i]]] : p \in Perms(Len(s))} :
     IsSortedByDate(t)}

SortReturn ==
  /\ pc = "loop"
  /\ p_idx = Len(players)
  /\ matches_found # <<>>
  /\ \E t \in SortValues(matches_found) : Leave("render", t)
  /\ UNCHANGED <<steps, failed, data, idx, html_content, file>>

\* pd.DataFrame([]) has no 'Date' column: sort_values raises KeyError,
\* which nothing catches
SortRaise ==
  /\ pc = "loop"
  /\ p_idx = Len(players)
  /\ matches_found = <<>>
  /\ Leave("crashed", <<>>)
  /\ UNCHANGED <<steps, failed, data, idx, html_content, file>>

\* -------------------------------------------------- 6. render and write
\* strftime('%b')
MonthAbbr(m) == CASE m = 5 -> "May" [] m = 6 -> "Jun" [] OTHER -> "???"

Card(row) ==
  [CssClass |-> row.CssClass, day |-> row.Date.day,
   month |-> MonthAbbr(row.Date.month), Player |-> row.Player,
   Status |-> row.Status, TurningAge |-> row.TurningAge,
   Team |-> row.Team, Opponent |-> row.Opponent]

\* the summary count, then one card per row or the placeholder
RenderDoc(d) ==
  [count |-> Len(d),
   cards |-> [i \in 1..Len(d) |-> Card(d[i])],
   placeholder |-> (d = <<>>)]

Render ==
  /\ pc = "render"
  /\ html_content' = RenderDoc(df)
  /\ steps' = Append(steps, "render")
  /\ pc' = "write"
  /\ UNCHANGED <<failed, teams, players, data, idx, dob_map, fixtures, today,
                 p_idx, p_dob, matches_found, df, file>>

WriteFile ==
  /\ pc = "write"
  /\ file' = html_content
  /\ steps' = Append(steps, "write")
  /\ pc' = "done"
  /\ UNCHANGED <<failed, teams, players, data, idx, dob_map, fixtures, today,
                 p_idx, p_dob, matches_found, df, html_content>>

Next ==
  \/ FetchRosterOk
  \/ FetchRosterFail
  \/ FetchRosterEmpty
  \/ WikidataRequestOk
  \/ WikidataRequestFail
  \/ WikidataRow
  \/ WikidataReturn
  \/ ReturnNoBirthdays
  \/ ProceedToFixtures
  \/ FetchFixturesOk
  \/ FetchFixturesFail
  \/ FetchFixturesEmpty
  \/ MatchPlayer
  \/ SortReturn
  \/ SortRaise
  \/ Render
  \/ WriteFile

Spec == Init /\ [][Next]_vars

\* ================================================================ claims
\* the matcher loop has processed players[1..p_idx]
InLoop == pc = "loop"
LoopDone == pc = "loop" /\ p_idx = Len(players)

FullKey(p) == MatchKey(p.full_name)
WebKey(p) == MatchKey(p.web_name)

\* the birth date the spec resolves for a player: full name, else short name
BirthDate(p) ==
  IF FullKey(p) \in DOMAIN dob_map THEN dob_map[FullKey(p)]
  ELSE IF WebKey(p) \in DOMAIN dob_map THEN dob_map[WebKey(p)]
  ELSE None

Involves(m, team) == m.Home = team \/ m.Away = team

SameMonthDay(a, b) == a.month = b.month /\ a.day = b.day

\* the (player, fixture) pairs that fall on a birthday, among the players
\* processed so far
BirthdayPairs ==
  {pr \in (1..p_idx) \X (1..Len(fixtures)) :
     /\ BirthDate(players[pr[1]]) # None
     /\ Involves(fixtures[pr[2]], players[pr[1]].TeamName)
     /\ SameMonthDay(fixtures[pr[2]].kickoff_time, BirthDate(players[pr[1]]))}

RecordIsOf(r, pr) ==
  /\ r.Player = players[pr[1]].full_name
  /\ r.Team = players[pr[1]].TeamName
  /\ r.Date = fixtures[pr[2]].kickoff_time
  /\ r.TurningAge =
       fixtures[pr[2]].kickoff_time.year - BirthDate(players[pr[1]]).year

\* C1: every emitted MatchRecord pairs a fixture and a player whose resolved
\* birth date has the month and the day of the fixture date.
C1_MonthDayMatch ==
  InLoop =>
    \A k \in 1..Len(matches_found) :
      \E pi \in 1..p_idx, fi \in 1..Len(fixtures) :
        /\ BirthDate(players[pi]) # None
        /\ RecordIsOf(matches_found[k], <<pi, fi>>)
        /\ matches_found[k].Date.month = BirthDate(players[pi]).month
        /\ matches_found[k].Date.day = BirthDate(players[pi]).day

\* a run that emitted records for fixtures of two different years
C1_Witness ==
  /\ LoopDone
  /\ \E j, k \in 1..Len(matches_found) :
       matches_found[j].Date.year # matches_found[k].Date.year

\* C2: the matcher is complete: the emitted records are in one-to-one
\* correspondence with the (player, fixture) pairs where the fixture involves
\* the player's team and falls on the resolved birthday.
C2_Complete ==
  InLoop =>
    /\ Len(matches_found) = Cardinality(BirthdayPairs)
    /\ \E g \in [BirthdayPairs -> 1..Len(matches_found)] :
         /\ \A a, b \in BirthdayPairs : a # b => g[a] # g[b]
         /\ \A a \in BirthdayPairs : RecordIsOf(matches_found[g[a]], a)

\* one player with two fixtures on the birthday, one of them away, and
\* another player with none
C2_Witness ==
  /\ LoopDone
  /\ \E pi, pj \in 1..Len(players) :
       /\ \E fi, fj \in 1..Len(fixtures) :
            /\ fi # fj
            /\ <<pi, fi>> \in BirthdayPairs
            /\ <<pi, fj>> \in BirthdayPairs
            /\ fixtures[fj].Away = players[pi].TeamName
       /\ \A fi \in 1..Len(fixtures) : <<pj, fi>> \notin BirthdayPairs
  /\ Len(matches_found) = 2

EmptyReport == [count |-> 0, cards |-> <<>>, placeholder |-> TRUE]

\* C3: when the roster, the fixtures or the birthday-index fetch fails, the
\* run neither crashes nor goes on to match, no record reaches the report,
\* and the document that is rendered and written has count 0, the
\* placeholder and no card.
C3_FetchFailureEmptyReport ==
  failed # "none" =>
    /\ pc \in {"check_dob", "render", "write", "done"}
    /\ df = <<>>
    /\ matches_found = <<>>
    /\ pc \in {"write", "done"} => html_content = EmptyReport
    /\ pc = "done" => file = EmptyReport

\* the fixtures fetch failed and the empty report is on disk
C3_Witness == pc = "done" /\ failed = "fixtures" /\ file = EmptyReport

\* C4: when no fetch fails and no fixture falls on a birthday, the matcher
\* returns the empty sequence without raising and the placeholder document
\* is written.
C4_NoMatchWritesPlaceholder ==
  /\ pc # "crashed"
  /\ (pc = "done" /\ failed = "none" /\ file.cards = <<>>) => file.placeholder

\* C5 as stated: the fixtures fetch comes before the birthday-index fetch
ClaimedRank(st) ==
  CASE st = "roster" -> 1 [] st = "fixtures" -> 2 [] st = "birthdays" -> 3
    [] st = "match" -> 4 [] st = "render" -> 5 [] OTHER -> 6

C5_FixturesBeforeBirthdays ==
  \A i, j \in 1..Len(steps) : i < j => ClaimedRank(steps[i]) < ClaimedRank(steps[j])

\* the order of the code
CodeRank(st) ==
  CASE st = "roster" -> 1 [] st = "birthdays" -> 2 [] st = "fixtures" -> 3
    [] st = "match" -> 4 [] st = "render" -> 5 [] OTHER -> 6

StepsSet == {steps[i] : i \in 1..Len(steps)}

\* C5 (amended): the steps of a run occur in the order fetch roster, fetch
\* birthday index, fetch fixtures, match, render, write file; the birthday
\* index is always fetched before the fixtures, a later step never starts
\* without the earlier fetches, and the step in progress is the last one
\* started.
C5_StepOrder ==
  /\ \A i, j \in 1..Len(steps) : i < j => CodeRank(steps[i]) < CodeRank(steps[j])
  /\ "fixtures" \in StepsSet => "birthdays" \in StepsSet
  /\ "birthdays" \in StepsSet => "roster" \in StepsSet
  /\ "match" \in StepsSet => "fixtures" \in StepsSet
  /\ "write" \in StepsSet => "render" \in StepsSet
  /\ pc = "wikidata_loop" => steps[Len(steps)] = "birthdays"
  /\ (pc = "loop" /\ p_idx > 0) => steps[Len(steps)] = "match"
  /\ pc = "write" => steps[Len(steps)] = "render"
  /\ pc = "done" => steps[Len(steps)] = "write"

C5_Witness ==
  /\ pc = "done"
  /\ steps = <<"roster", "birthdays", "fixtures", "match", "render", "write">>

Count(s, r) == Cardinality({i \in 1..Len(s) : s[i] = r})

IsPermutationOf(t, s) ==
  /\ Len(t) = Len(s)
  /\ \A i \in 1..Len(s) : Count(t, s[i]) = Count(s, s[i])

\* t is s sorted by Date with equal dates kept in the order of s
IsStableSortOf(t, s) ==
  \E p \in Perms(Len(s)) :
    /\ Len(t) = Len(s)
    /\ \A i \in 1..Len(s) : t[i] = s[p[i]]
    /\ \A i, j \in 1..Len(s) :
         i < j => \/ DateLT(t[i].Date, t[j].Date)
                  \/ t[i].Date = t[j].Date /\ p[i] < p[j]

\* C6 as stated: the returned sequence is the stable sort of the emitted
\* records
C6_StableSort ==
  [][(pc = "loop" /\ pc' = "render") => IsStableSortOf(df', matches_found)]_vars

\* C6 (amended): whenever the matcher returns the emitted records, the
\* returned sequence is a permutation of them that is non-decreasing by
\* fixture date; nothing is guaranteed about the order of equal dates.
C6_SortedPermutation ==
  [][(pc = "loop" /\ pc' = "render") =>
       /\ IsPermutationOf(df', matches_found)
       /\ \A i, j \in 1..Len(df') : i < j => ~DateLT(df'[j].Date, df'[i].Date)]_vars

\* a returned sequence with two records of one date and one of a later date
C6_Witness ==
  /\ pc = "render"
  /\ Len(df) >= 3
  /\ \E i, j \in 1..Len(df) : i # j /\ df[i].Date = df[j].Date /\ df[i] # df[j]
  /\ \E i, j \in 1..Len(df) : DateLT(df[i].Date, df[j].Date)

\* days since year 0 in a calendar of 31-day months: orders dates as the
\* calendar does
DayNumber(d) == (d.year * 12 + d.month) * 31 + d.day

\* C7: a record is "played" exactly when its fixture date is strictly
\* before today and "upcoming" otherwise (so also when it is today), and
\* its CSS class agrees with its status.
C7_StatusBoundary ==
  InLoop =>
    \A k \in 1..Len(matches_found) :
      LET r == matches_found[k] IN
        /\ r.Status \in {"PLAYED", "UPCOMING"}
        /\ r.CssClass \in {"played", "upcoming"}
        /\ r.Status = "PLAYED" <=> DayNumber(r.Date) < DayNumber(today)
        /\ r.CssClass = "played" <=> r.Status = "PLAYED"

\* a fixture dated today next to one already played
C7_Witness ==
  /\ LoopDone
  /\ \E j, k \in 1..Len(matches_found) :
       /\ matches_found[j].Date = today
       /\ matches_found[j].Status = "UPCOMING"
       /\ matches_found[k].Status = "PLAYED"

Unresolved(p) ==
  FullKey(p) \notin DOMAIN dob_map /\ WebKey(p) \notin DOMAIN dob_map

\* C8: the birth date of the player just processed is the entry of the
\* full-name key when that key is present, the entry of the short-name key
\* only when the full-name key is absent, and nothing when both are absent;
\* a player with neither key has no record, and the players around it still
\* get theirs.
C8_TwoStepLookup ==
  (InLoop /\ p_idx > 0) =>
    LET p == players[p_idx] IN
      /\ FullKey(p) \in DOMAIN dob_map => p_dob = dob_map[FullKey(p)]
      /\ (FullKey(p) \notin DOMAIN dob_map /\ WebKey(p) \in DOMAIN dob_map)
           => p_dob = dob_map[WebKey(p)]
      /\ Unresolved(p) => p_dob = None
      /\ \A pi \in 1..p_idx :
           Unresolved(players[pi]) =>
             \A k \in 1..Len(matches_found) :
               matches_found[k].Player # players[pi].full_name
      /\ \A pr \in BirthdayPairs :
           \E k \in 1..Len(matches_found) : RecordIsOf(matches_found[k], pr)

\* the first player has neither key and is skipped; the second has both
\* keys with different dates and gets a record from the full-name entry
C8_Witness ==
  /\ LoopDone
  /\ Len(players) = 2
  /\ Unresolved(players[1])
  /\ FullKey(players[2]) \in DOMAIN dob_map
  /\ WebKey(players[2]) \in DOMAIN dob_map
  /\ dob_map[FullKey(players[2])] # dob_map[WebKey(players[2])]
  /\ p_dob = dob_map[FullKey(players[2])]
  /\ matches_found # <<>>

\* C9: the opponent descriptor is "vs" and the away team when the player's
\* team is the home side, "@" and the home team when it is the away side;
\* the named opponent is never the player's own team.
C9_OpponentDescriptor ==
  InLoop =>
    \A k \in 1..Len(matches_found) :
      LET r == matches_found[k] IN
        /\ r.Opponent[2] # r.Team
        /\ \E fi \in 1..Len(fixtures) :
             LET m == fixtures[fi] IN
               /\ r.Date = m.kickoff_time
               /\ \/ r.Team = m.Home /\ r.Opponent = <<"vs", m.Away>>
                  \/ r.Team = m.Away /\ r.Opponent = <<"@", m.Home>>

\* one record at home and one away
C9_Witness ==
  /\ LoopDone
  /\ \E j, k \in 1..Len(matches_found) :
       /\ matches_found[j].Opponent[1] = "vs"
       /\ matches_found[k].Opponent[1] = "@"

\* the rows among the first n that parse
GoodRows(n) == {i \in 1..n : CanParse(data[i].dob)}

RowKey(i) == MatchKey(data[i].playerLabel)

LastGoodRow(n, k) ==
  CHOOSE i \in GoodRows(n) :
    /\ RowKey(i) = k
    /\ \A j \in GoodRows(n) : RowKey(j) = k => j <= i

\* C10: after any number of rows, the map built from them has exactly the
\* lowercased, trimmed labels of the rows that parse as keys (a row that
\* does not parse adds and changes nothing), and each key holds the birth
\* date of the last row that parses with that key.
C10_IndexFold ==
  pc = "wikidata_loop" =>
    /\ DOMAIN dob_map = {RowKey(i) : i \in GoodRows(idx)}
    /\ \A k \in DOMAIN dob_map :
         dob_map[k] = ToDate(data[LastGoodRow(idx, k)].dob)

\* a row that does not parse between two rows of the same key and
\* different dates: the map holds the later date
C10_Witness ==
  /\ pc = "wikidata_loop"
  /\ idx = 3
  /\ Len(data) = 3
  /\ CanParse(data[1].dob)
  /\ ~CanParse(data[2].dob)
  /\ CanParse(data[3].dob)
  /\ RowKey(1) = RowKey(3)
  /\ data[1].dob # data[3].dob
  /\ dob_map[RowKey(3)] = ToDate(data[3].dob)

====
